---------------------------- MODULE Spec2Model ----------------------------
(***************************************************************************)
(* Deprem Gozlem (src/deprem.py): the fetch -> normalize -> persist ->     *)
(* distribute pipeline.                                                    *)
(*                                                                         *)
(* Two specifications share the variables:                                 *)
(*   StoreSpec  the local store alone: calls of db_upsert_earthquakes and  *)
(*              db_fetch_last with arbitrary batches and limits;           *)
(*   Spec       the application: the UI thread running refresh_all and the *)
(*              event handlers, and the map worker threads.                *)
(*                                                                         *)
(* Numbers: mag, depth, lon and lat are fixed-point, in tenths (61 is 6.1);*)
(* created_at and the clock are whole seconds.                             *)
(***************************************************************************)
EXTENDS Integers, Sequences, FiniteSets, TLC

VARIABLES
    table,        \* the earthquakes table: its rows, in rowid order
    now,          \* int(time.time())
    items,        \* StoreSpec: the list a caller hands to db_upsert_earthquakes
    call,         \* StoreSpec: the store call that completed last
    ret,          \* StoreSpec: the rows that call returned
    lastWritten,  \* StoreSpec, history: per key, the record whose INSERT ran last
    settings,     \* MainWindow.settings
    timerActive,  \* MainWindow.timer.isActive()
    crashed,      \* the process was aborted by Qt
    uiPc,         \* where the UI thread is: "idle" is the event loop
    uiQueue,      \* the UI thread's event queue: user events and queued signals
    cyc,          \* refresh_all's locals (live, rows) and the history of the cycle
    nearBatch,    \* NearTab.refresh_data's local eqs
    home,         \* the list HomeTab.update_overview was given
    mapData,      \* MapTab._last_eqs
    near,         \* NearTab._last_data
    analysis,     \* AnalysisTab._data
    mapView,      \* what the map tab shows
    lastLog,      \* the last line appended to LogsTab
    mapThread,    \* MapTab.thread: a thread's number, 0 for None
    thr,          \* the QThread objects with their MapGeneratorWorker
    clicks,       \* how many refresh_all events were queued after startup
    apiCalls,     \* ApiSpec: how many calls of api_get were made
    http,         \* ApiSpec: what requests.get did in the last call
    apiRet,       \* ApiSpec: what the last call of api_get returned
    apiLog,       \* ApiSpec: how many "API error" lines were logged
    settingsFile, \* settings.json
    bootPc        \* where MainWindow.__init__ is; "up" once it has returned

storeVars == <<table, now, items, call, ret, lastWritten>>
uiVars == <<timerActive, crashed, uiPc, uiQueue, cyc, nearBatch, home, mapData,
            near, analysis, mapView, lastLog, mapThread, thr, clicks>>
appVars == <<settings, timerActive, crashed, uiPc, uiQueue, cyc, nearBatch, home,
             mapData, near, analysis, mapView, lastLog, mapThread, thr, clicks,
             settingsFile, bootPc>>
apiVars == <<apiCalls, http, apiRet, apiLog>>
vars == <<table, now, items, call, ret, lastWritten, settings, timerActive,
          crashed, uiPc, uiQueue, cyc, nearBatch, home, mapData, near, analysis,
          mapView, lastLog, mapThread, thr, clicks, apiCalls, http, apiRet, apiLog,
          settingsFile, bootPc>>

-----------------------------------------------------------------------------
(* Python values as they come out of r.json().                              *)

None == [t |-> "none"]
Num(n) == [t |-> "num", n |-> n]
Str(s) == [t |-> "str", s |-> s]
List(q) == [t |-> "list", q |-> q]
Dict(f) == [t |-> "dict", f |-> f]
EmptyDict == Dict([k \in {} |-> None])

\* bool(v)
Truthy(v) ==
    CASE v.t = "none" -> FALSE
      [] v.t = "num"  -> v.n # 0
      [] v.t = "str"  -> v.s # ""
      [] v.t = "list" -> v.q # <<>>
      [] v.t = "dict" -> DOMAIN v.f # {}

\* v or d
Or(v, d) == IF Truthy(v) THEN v ELSE d

\* d.get(k, dflt); the caller has checked HasGet(d)
Get(d, k, dflt) == IF k \in DOMAIN d.f THEN d.f[k] ELSE dflt
\* d.get exists (AttributeError otherwise)
HasGet(d) == d.t = "dict"

\* The strings float() and int() accept, with their values.
NumericStr == ("6.1" :> 61) @@ ("5.5" :> 55)

\* float(v) does not raise (TypeError for None, a list or a dict, ValueError
\* for a string that is no number)
CanFloat(v) == v.t = "num" \/ (v.t = "str" /\ v.s \in DOMAIN NumericStr)
\* float(v), when it does not raise
ToFloat(v) == IF v.t = "num" THEN v.n ELSE NumericStr[v.s]

\* The strings int() accepts, with their values.
IntegerStr == ("1000" :> 1000)

\* int(v) does not raise
CanInt(v) == v.t = "num" \/ (v.t = "str" /\ v.s \in DOMAIN IntegerStr)
\* int(v), when it does not raise
ToInt(v) == IF v.t = "num" THEN v.n ELSE IntegerStr[v.s]

\* len(v) exists; the model's coordinates are a list or None
HasLen(v) == v.t = "list"
PyLen(v) == Len(v.q)

\* sqlite3 binds None, int, float and str; it raises for anything else
Bindable(v) == v.t \in {"none", "num", "str"}

\* json.dumps(v, ensure_ascii=False): the text of v
JsonDumps(v) == [t |-> "json", of |-> v]

-----------------------------------------------------------------------------
(* db_upsert_earthquakes: the body of the try block for one item e.  ok is  *)
(* FALSE when a line of it raises (the item is then logged and skipped),    *)
(* row is the parameter tuple of the INSERT.                                *)

Extract(e, clock) ==
    LET okE   == HasGet(e)
        gid   == Or(Get(e, "earthquake_id", None), Str(""))
        prov  == Or(Get(e, "provider", None), Str(""))
        title == Or(Get(e, "title", None), Str(""))
        date  == Or(Get(e, "date", None), Or(Get(e, "date_time", None), Str("")))
        magV  == Or(Get(e, "mag", None), Num(0))
        depV  == Or(Get(e, "depth", None), Num(0))
        gj    == Get(e, "geojson", EmptyDict)
        okGj  == HasGet(gj)
        geo   == Get(gj, "coordinates", List(<<Num(0), Num(0)>>))
        okGeo == HasLen(geo)
        okLon == PyLen(geo) > 0 => CanFloat(geo.q[1])
        lon   == IF PyLen(geo) > 0 THEN ToFloat(geo.q[1]) ELSE 0
        okLat == PyLen(geo) > 1 => CanFloat(geo.q[2])
        lat   == IF PyLen(geo) > 1 THEN ToFloat(geo.q[2]) ELSE 0
        crV   == Or(Get(e, "created_at", None), Num(clock))
        lp    == Or(Get(e, "location_properties", EmptyDict), EmptyDict)
        okLp  == HasGet(lp)
        cc    == Or(Get(lp, "closestCity", EmptyDict), EmptyDict)
        okCc  == HasGet(cc)
        epi   == Or(Get(lp, "epiCenter", EmptyDict), EmptyDict)
        okEpi == HasGet(epi)
        airports == Or(Get(lp, "airports", List(<<>>)), List(<<>>))
        row   == [earthquake_id          |-> gid,
                  provider               |-> prov,
                  title                  |-> title,
                  date                   |-> date,
                  mag                    |-> ToFloat(magV),
                  depth                  |-> ToFloat(depV),
                  lon                    |-> lon,
                  lat                    |-> lat,
                  created_at             |-> ToInt(crV),
                  closestCity_name       |-> Get(cc, "name", None),
                  closestCity_code       |-> Get(cc, "cityCode", None),
                  closestCity_distance   |-> Get(cc, "distance", None),
                  closestCity_population |-> Get(cc, "population", None),
                  epiCenter_name         |-> Get(epi, "name", None),
                  airports_json          |-> JsonDumps(airports)]
        okBind == /\ Bindable(gid) /\ Bindable(prov) /\ Bindable(title)
                  /\ Bindable(date)
                  /\ Bindable(row.closestCity_name)
                  /\ Bindable(row.closestCity_code)
                  /\ Bindable(row.closestCity_distance)
                  /\ Bindable(row.closestCity_population)
                  /\ Bindable(row.epiCenter_name)
        ok    == /\ okE
                 /\ CanFloat(magV) /\ CanFloat(depV)
                 /\ okGj /\ okGeo /\ okLon /\ okLat
                 /\ CanInt(crV)
                 /\ okLp /\ okCc /\ okEpi
                 /\ okBind
    IN  IF ok THEN [ok |-> TRUE, row |-> row] ELSE [ok |-> FALSE]

\* Mutant of DoUpdateSet: an update that keeps the old closest city when the
\* new record has none (a merge).
DoUpdateSetMerging(old, excluded) ==
    [excluded EXCEPT !.earthquake_id = old.earthquake_id,
                     !.closestCity_name =
                         IF excluded.closestCity_name = None
                         THEN old.closestCity_name
                         ELSE excluded.closestCity_name]

\* ON CONFLICT(earthquake_id) DO UPDATE SET ...: the row after the update
DoUpdateSet(old, excluded) ==
    [old EXCEPT !.provider               = excluded.provider,
                !.title                  = excluded.title,
                !.date                   = excluded.date,
                !.mag                    = excluded.mag,
                !.depth                  = excluded.depth,
                !.lon                    = excluded.lon,
                !.lat                    = excluded.lat,
                !.created_at             = excluded.created_at,
                !.closestCity_name       = excluded.closestCity_name,
                !.closestCity_code       = excluded.closestCity_code,
                !.closestCity_distance   = excluded.closestCity_distance,
                !.closestCity_population = excluded.closestCity_population,
                !.epiCenter_name         = excluded.epiCenter_name,
                !.airports_json          = excluded.airports_json]

\* Mutant of InsertOrUpdate: a table capped at two rows, which deletes its
\* oldest row when a third is inserted.
InsertOrUpdateCapped(t, row) ==
    IF \E i \in 1..Len(t) : t[i].earthquake_id = row.earthquake_id
    THEN [i \in 1..Len(t) |->
            IF t[i].earthquake_id = row.earthquake_id
            THEN DoUpdateSet(t[i], row) ELSE t[i]]
    ELSE IF Len(t) >= 2 THEN Append(Tail(t), row) ELSE Append(t, row)

\* INSERT INTO earthquakes ... ON CONFLICT(earthquake_id) DO UPDATE: a new row
\* gets the next rowid, an updated row keeps its own
InsertOrUpdate(t, row) ==
    IF \E i \in 1..Len(t) : t[i].earthquake_id = row.earthquake_id
    THEN [i \in 1..Len(t) |->
            IF t[i].earthquake_id = row.earthquake_id
            THEN DoUpdateSet(t[i], row) ELSE t[i]]
    ELSE Append(t, row)

\* Mutant of UpsertAll: the first record that raises ends the loop.
RECURSIVE UpsertAllAborting(_, _, _)
UpsertAllAborting(t, batch, clock) ==
    IF batch = <<>> THEN t
    ELSE LET x == Extract(Head(batch), clock)
         IN  IF x.ok
             THEN UpsertAllAborting(InsertOrUpdate(t, x.row), Tail(batch), clock)
             ELSE t

\* db_upsert_earthquakes(items) on table t at time clock: the table committed
RECURSIVE UpsertAll(_, _, _)
UpsertAll(t, batch, clock) ==
    IF batch = <<>> THEN t
    ELSE LET x == Extract(Head(batch), clock)
         IN  UpsertAll(IF x.ok THEN InsertOrUpdate(t, x.row) ELSE t,
                       Tail(batch), clock)

\* ORDER BY created_at DESC as SQLite's sorter runs it over the table scan: a
\* row goes behind every row already placed whose created_at is not smaller
RECURSIVE SortedInsert(_, _)
SortedInsert(s, row) ==
    IF s = <<>> THEN <<row>>
    ELSE IF Head(s).created_at >= row.created_at
         THEN <<Head(s)>> \o SortedInsert(Tail(s), row)
         ELSE <<row>> \o s

RECURSIVE OrderByCreatedDesc(_)
OrderByCreatedDesc(t) ==
    IF t = <<>> THEN <<>>
    ELSE SortedInsert(OrderByCreatedDesc(SubSeq(t, 1, Len(t) - 1)), t[Len(t)])

\* Mutant of db_fetch_last: the query without its LIMIT.
db_fetch_last_NoLimit(t, limit) == OrderByCreatedDesc(t)

\* db_fetch_last(limit): SELECT * ... ORDER BY created_at DESC LIMIT ?
db_fetch_last(t, limit) ==
    LET s == OrderByCreatedDesc(t)
    IN  IF limit < 0 THEN s
        ELSE SubSeq(s, 1, IF limit < Len(s) THEN limit ELSE Len(s))

-----------------------------------------------------------------------------
(* Raw records of the upstream API (section 6 of the specification names    *)
(* the fields the pipeline reads).                                          *)

\* the first record of the end-to-end example: complete, magnitude 6.1
RawA ==
    Dict([earthquake_id |-> Str("a"), provider |-> Str("kandilli"),
          title |-> Str("IZMIR"), date |-> Str("2024.01.01 10:00:00"),
          mag |-> Num(61), depth |-> Num(70),
          geojson |-> Dict([coordinates |-> List(<<Num(290), Num(410)>>)]),
          created_at |-> Num(1000),
          location_properties |->
              Dict([closestCity |-> Dict([name |-> Str("Izmir"),
                                          cityCode |-> Num(35),
                                          distance |-> Num(12000),
                                          population |-> Num(4000000)]),
                    epiCenter |-> Dict([name |-> Str("Ege")]),
                    airports |-> List(<<Dict([name |-> Str("ADB"),
                                              distance |-> Num(20000)])>>)])])

\* the second record of the example: magnitude 3.0, no location_properties
RawB ==
    Dict([earthquake_id |-> Str("b"), provider |-> Str("kandilli"),
          title |-> Str("ANKARA"), date |-> Str("2024.01.01 10:20:00"),
          mag |-> Num(30), depth |-> Num(50),
          geojson |-> Dict([coordinates |-> List(<<Num(350), Num(390)>>)]),
          created_at |-> Num(2000)])

\* a revision of a: another title, the magnitude as the text "5.5", a
\* one-element coordinate array, b's created_at, no location_properties
RawA2 ==
    Dict([earthquake_id |-> Str("a"), provider |-> Str("kandilli"),
          title |-> Str("IZMIR (REVIZE)"), date_time |-> Str("2024.01.01 10:00:05"),
          mag |-> Str("5.5"), depth |-> Num(70),
          geojson |-> Dict([coordinates |-> List(<<Num(290)>>)]),
          created_at |-> Num(2000)])

\* b with nothing but its id
RawBare == Dict([earthquake_id |-> Str("b")])

\* a record whose magnitude is no number
RawBadMag ==
    Dict([earthquake_id |-> Str("b"), title |-> Str("BOLU"),
          mag |-> Str("abc"), depth |-> Num(100),
          geojson |-> Dict([coordinates |-> List(<<Num(310), Num(400)>>)]),
          created_at |-> Num(2500)])

\* a record whose geojson is null
RawNullGeo ==
    Dict([earthquake_id |-> Str("c"), title |-> Str("VAN"),
          mag |-> Num(45), geojson |-> None, created_at |-> Num(1000)])

\* a record without earthquake_id, with a's created_at
RawNoId ==
    Dict([title |-> Str("MUGLA"), mag |-> Num(20), depth |-> Num(0),
          geojson |-> Dict([coordinates |-> List(<<Num(280), Num(370)>>)]),
          created_at |-> Num(1000)])

\* a record that extracts and cannot be written: its title is an object
RawObjTitle ==
    Dict([earthquake_id |-> Str("c"), title |-> Dict([tr |-> Str("VAN")]),
          mag |-> Num(45), created_at |-> Num(1000)])

RawRecords ==
    {RawA, RawB, RawA2, RawBare, RawBadMag, RawNullGeo, RawNoId, RawObjTitle}

-----------------------------------------------------------------------------
(* The data source: api_get and the two fetch functions.                    *)

\* a body r.json() cannot parse
Unparsable == [t |-> "unparsable"]

\* What r.json() may give: bare lists, objects with and without a list under
\* "result", and values that are neither.
JsonBodies ==
    {List(<<>>), List(<<RawA2, RawB>>), List(<<Num(1)>>),
     Dict([result |-> List(<<>>)]), Dict([result |-> List(<<RawB, RawA>>)]),
     Dict([result |-> Str("x")]), Dict([result |-> None]),
     Dict([status |-> Str("ok"), data |-> List(<<RawA>>)]),
     EmptyDict, Num(5), Str("ok"), None}

\* the status codes a response may carry once redirects were followed
StatusCodes == {200, 204, 300, 404, 500}

\* What requests.get(url, ..., timeout=20) does: it raises, or it returns a
\* response.
HttpOutcomes ==
    {[kind |-> "ConnectionError", status |-> 0, body |-> Unparsable],
     [kind |-> "Timeout", status |-> 0, body |-> Unparsable]}
    \cup [kind : {"response"}, status : StatusCodes,
          body : JsonBodies \cup {Unparsable}]

\* Response.raise_for_status() raises HTTPError for 4xx and 5xx
RaisesForStatus(o) == o.status >= 400 /\ o.status < 600

\* api_get: what it returns or raises, and whether the except clause logged
api_get(o) ==
    LET js == o.body
        Caught == [raised |-> FALSE, value |-> <<>>, logged |-> TRUE]
        Return(q) == [raised |-> FALSE, value |-> q, logged |-> FALSE]
    IN  IF o.kind # "response" THEN Caught
        ELSE IF RaisesForStatus(o) THEN Caught
        ELSE IF js = Unparsable THEN Caught
        ELSE IF js.t = "dict" /\ "result" \in DOMAIN js.f /\ js.f.result.t = "list"
             THEN Return(js.f.result.q)
        ELSE IF js.t = "list" THEN Return(js.q)
        ELSE Return(<<>>)

\* calls of api_get in a run of ApiSpec
MaxCalls == 2

ApiInit ==
    /\ apiCalls = 0
    /\ http = [kind |-> "none", status |-> 0, body |-> Unparsable]
    /\ apiRet = [fn |-> "none", raised |-> FALSE, value |-> <<>>]
    /\ apiLog = 0

\* fetch_live_earthquakes() and fetch_archive_earthquakes(date): both are
\* api_get with a URL of their own
FetchFunctions == {"fetch_live_earthquakes", "fetch_archive_earthquakes"}

\* One call of fn, in which the request ends as o.
ApiCall(fn, o) ==
    /\ apiCalls < MaxCalls
    /\ apiCalls' = apiCalls + 1
    /\ http' = o
    /\ apiRet' = [fn |-> fn, raised |-> api_get(o).raised, value |-> api_get(o).value]
    /\ apiLog' = IF api_get(o).logged THEN apiLog + 1 ELSE apiLog
    /\ UNCHANGED storeVars
    /\ UNCHANGED appVars

-----------------------------------------------------------------------------
(* The application: MainWindow, its tabs and the map worker threads.        *)
(* The installation has folium and QtWebEngine (HAS_FOLIUM, HAS_WEBENGINE). *)

DEFAULT_SETTINGS ==
    [theme |-> Str("dark"), mag_threshold_for_notification |-> Num(55),
     auto_refresh_minutes |-> Num(5), map_min_mag |-> Num(0)]

SettingKeys == DOMAIN DEFAULT_SETTINGS

\* a value of the right type for each key, other than the default
ValidSetting ==
    [theme |-> Str("light"), mag_threshold_for_notification |-> Num(40),
     auto_refresh_minutes |-> Num(10), map_min_mag |-> Num(20)]

\* A settings.json that holds a JSON object: each key is absent, valid, a
\* text that is no number, or null.
ObjectFiles ==
    {Dict([k \in {j \in SettingKeys : c[j] # "absent"} |->
              CASE c[k] = "valid" -> ValidSetting[k]
                [] c[k] = "text"  -> Str("abc")
                [] c[k] = "null"  -> None]) :
        c \in [SettingKeys -> {"absent", "valid", "text", "null"}]}

\* settings.json: missing, unreadable, no JSON, JSON that is no object, or an
\* object.
SettingsFiles ==
    {[t |-> "missing"], [t |-> "unreadable"], [t |-> "invalid"],
     List(<<Num(1), Num(2)>>), List(<<>>), Num(5), None}
    \cup ObjectFiles

\* d.update(s) does not raise: s is a dict, or an empty sequence (which
\* updates nothing); a number, null or a list of non-pairs raises
CanUpdate(js) == js.t = "dict" \/ (js.t = "list" /\ js.q = <<>>)

\* load_settings(): the defaults updated from the file, or the defaults
load_settings(file) ==
    IF file.t \in {"missing", "unreadable", "invalid"} THEN DEFAULT_SETTINGS
    ELSE IF ~CanUpdate(file) THEN DEFAULT_SETTINGS
    ELSE IF file.t = "list" THEN DEFAULT_SETTINGS
    ELSE [k \in SettingKeys \cup DOMAIN file.f |->
             IF k \in DOMAIN file.f THEN file.f[k] ELSE DEFAULT_SETTINGS[k]]

\* refresh_all: th = float(settings.get(...)), 5.5 when that raises
Threshold(s) ==
    IF CanFloat(s.mag_threshold_for_notification)
    THEN ToFloat(s.mag_threshold_for_notification) ELSE 55

\* the limit refresh_all and NearTab.refresh_data pass to db_fetch_last
FetchLimit == 200

\* What a call of fetch_live_earthquakes may return: api_get's [] on any
\* failure, or the provider's list.
Feeds ==
    {<<>>, <<RawA2, RawB>>, <<RawB, RawA>>, <<RawBadMag, RawA>>}

\* The table a previous session left in deprem.db.
PriorTables == {<<>>, UpsertAll(<<>>, <<RawB>>, 0)}

\* refresh_all events the user may queue after startup
MaxTriggers == 2
\* QThread objects that may exist at once
MaxThreads == 2
ThreadIds == 1..MaxThreads

NoThread == [st |-> "none", eqs |-> <<>>]
\* QThread.isRunning(): from start() until the thread has left its event loop
Running(th) == th.st \in {"net", "persist", "loop", "quitting"}

Event(k, src, tid, ok, busy) ==
    [k |-> k, src |-> src, tid |-> tid, ok |-> ok, busy |-> busy]

NoCycle ==
    [status |-> "none", src |-> "none", busy |-> FALSE, live |-> <<>>,
     rows |-> <<>>, notified |-> FALSE, store0 |-> <<>>, store1 |-> <<>>,
     srcEmpty |-> TRUE]

\* float(e.get("mag") or 0) does not raise
MagOk(e) == HasGet(e) /\ CanFloat(Or(Get(e, "mag", None), Num(0)))
MagOf(e) == ToFloat(Or(Get(e, "mag", None), Num(0)))

\* MapGeneratorWorker.run, lines 300-351: the markers drawn for eqs, or the
\* exception the except clause turns into the error signal
MapRender(eqs, min_mag) ==
    LET Shown(e) == MagOf(e) >= min_mag
        eqs_f == SelectSeq(eqs, Shown)
        Coords(e) == Get(Get(e, "geojson", EmptyDict), "coordinates",
                         List(<<Num(0), Num(0)>>))
        okE(e) == /\ HasGet(Get(e, "geojson", EmptyDict))
                  /\ HasLen(Coords(e))
                  /\ PyLen(Coords(e)) >= 2
                  /\ CanFloat(Coords(e).q[1]) /\ CanFloat(Coords(e).q[2])
                  /\ CanFloat(Or(Get(e, "depth", None), Num(0)))
        ok == /\ \A i \in 1..Len(eqs) : MagOk(eqs[i])
              /\ \A i \in 1..Len(eqs_f) : okE(eqs_f[i])
    IN  IF ok
        THEN [ok |-> TRUE,
              markers |-> [i \in 1..Len(eqs_f) |->
                  [lat   |-> ToFloat(Coords(eqs_f[i]).q[2]),
                   lon   |-> ToFloat(Coords(eqs_f[i]).q[1]),
                   mag   |-> MagOf(eqs_f[i]),
                   title |-> Get(eqs_f[i], "title", Str(""))]]]
        ELSE [ok |-> FALSE, markers |-> <<>>]

\* NearTab.refresh_data, lines 530-557: building the table model from rows
\* does not raise
NearRowsOk(rows) ==
    \A i \in 1..Len(rows) :
        LET airports == rows[i].airports_json.of
        IN  /\ airports.t = "list"
            /\ \A n \in 1..Len(airports.q) :
                  /\ HasGet(airports.q[n])
                  /\ Get(airports.q[n], "name", Str("")).t = "str"

\* The window's state when MainWindow.__init__ calls refresh_all.
UiInit ==
    /\ timerActive = FALSE
    /\ crashed = FALSE
    /\ uiPc = "idle"
    /\ uiQueue = <<Event("refresh_all", "startup", 0, TRUE, FALSE)>>
    /\ cyc = NoCycle
    /\ nearBatch = <<>>
    /\ home = <<>>
    /\ mapData = <<>>
    /\ near = <<>>
    /\ analysis = <<>>
    /\ mapView = [loading |-> FALSE, visible |-> TRUE, error |-> FALSE,
                  markers |-> <<>>]
    /\ lastLog = [kind |-> "none", n |-> 0]
    /\ mapThread = 0
    /\ thr = [t \in ThreadIds |-> NoThread]
    /\ clicks = 0

\* Startup from the settings.json the application itself writes.
AppInit ==
    /\ settings = DEFAULT_SETTINGS
    /\ settingsFile = Dict(DEFAULT_SETTINGS)
    /\ bootPc = "up"
    /\ UiInit

\* MainWindow.__init__ up to the call of refresh_all in its last line, which
\* is the first event of the queue.
Init ==
    /\ table \in PriorTables
    /\ now = 3000
    /\ items = <<>>
    /\ call = [op |-> "db_init", limit |-> 0]
    /\ ret = <<>>
    /\ lastWritten = [k \in {} |-> None]
    /\ AppInit
    /\ ApiInit

\* What no step of the application changes.
fixedVars == <<settings, timerActive, now, items, call, ret, lastWritten,
               apiCalls, http, apiRet, apiLog, settingsFile, bootPc>>

\* main, line 761: the window is shown and the event loop entered once
\* MainWindow.__init__, and with it the first refresh_all, has returned.
WindowShown ==
    /\ cyc.status # "none"
    /\ ~(cyc.src = "startup" /\ cyc.status = "running")

\* The user clicks "Tumunu Yenile" or Dosya > Yenile, or the timer times out:
\* the event waits in the queue while the UI thread is inside a handler, and
\* refresh_all is called for it afterwards.
Trigger(src) ==
    /\ ~crashed
    /\ WindowShown
    /\ src = "timer" => timerActive
    /\ clicks < MaxTriggers
    /\ clicks' = clicks + 1
    /\ uiQueue' = Append(uiQueue,
                         Event("refresh_all", src, 0, TRUE, cyc.status = "running"))
    /\ UNCHANGED <<table, crashed, uiPc, cyc, nearBatch, home, mapData, near,
                   analysis, mapView, lastLog, mapThread, thr>>
    /\ UNCHANGED fixedVars

\* refresh_all is called and calls fetch_live_earthquakes (line 732).
RefreshAllStart ==
    /\ ~crashed /\ uiPc = "idle"
    /\ uiQueue # <<>> /\ Head(uiQueue).k = "refresh_all"
    /\ uiQueue' = Tail(uiQueue)
    /\ uiPc' = "ra_net"
    /\ cyc' = [NoCycle EXCEPT !.status = "running", !.src = Head(uiQueue).src,
                              !.busy = Head(uiQueue).busy, !.store0 = table]
    /\ UNCHANGED <<table, crashed, clicks, nearBatch, home, mapData, near,
                   analysis, mapView, lastLog, mapThread, thr>>
    /\ UNCHANGED fixedVars

\* fetch_live_earthquakes returns feed (lines 732-733).
RefreshAllFetched(feed) ==
    /\ ~crashed /\ uiPc = "ra_net"
    /\ cyc' = [cyc EXCEPT !.live = feed, !.srcEmpty = @ /\ (feed = <<>>)]
    /\ uiPc' = IF feed # <<>> THEN "ra_persist" ELSE "ra_fetch_last"
    /\ UNCHANGED <<table, crashed, clicks, uiQueue, nearBatch, home, mapData,
                   near, analysis, mapView, lastLog, mapThread, thr>>
    /\ UNCHANGED fixedVars

\* Mutant of NotifyDecision: the newest stored row decides.
NotifyDecisionByStore(live, t, th) ==
    LET rows == db_fetch_last(t, 1)
    IN  [raised |-> FALSE, notify |-> rows # <<>> /\ rows[1].mag >= th]

\* refresh_all, lines 737-739: top = live[0]; float(top.get("mag") or 0) >= th
NotifyDecision(live, t, th) ==
    IF MagOk(live[1])
    THEN [raised |-> FALSE, notify |-> MagOf(live[1]) >= th]
    ELSE [raised |-> TRUE, notify |-> FALSE]

\* refresh_all, lines 734-739: the upsert of live, then the notification; an
\* exception goes to the except clause of lines 752-753.
RefreshAllPersist ==
    /\ ~crashed /\ uiPc = "ra_persist"
    /\ table' = UpsertAll(table, cyc.live, now)
    /\ LET d == NotifyDecision(cyc.live, table', Threshold(settings))
       IN  IF d.raised
           THEN /\ cyc' = [cyc EXCEPT !.status = "failed", !.store1 = table']
                /\ lastLog' = [kind |-> "Hata", n |-> 0]
                /\ uiPc' = "idle"
           ELSE /\ cyc' = [cyc EXCEPT !.notified = d.notify]
                /\ lastLog' = lastLog
                /\ uiPc' = "ra_fetch_last"
    /\ UNCHANGED <<crashed, clicks, uiQueue, nearBatch, home, mapData, near,
                   analysis, mapView, mapThread, thr>>
    /\ UNCHANGED fixedVars

\* MapTab.refresh: nothing while self.thread runs; otherwise a new QThread
\* with a new worker, started, which calls fetch_live_earthquakes.  The
\* QThread self.thread referred to before is released with its last reference.
MapRefresh ==
    IF mapThread # 0 /\ Running(thr[mapThread])
    THEN UNCHANGED <<mapThread, thr, mapView>>
    ELSE /\ \E t \in ThreadIds : thr[t].st = "none" \/ t = mapThread
         /\ LET t == CHOOSE t \in ThreadIds : thr[t].st = "none" \/ t = mapThread
            IN  /\ mapThread' = t
                /\ thr' = [thr EXCEPT ![t] = [st |-> "net", eqs |-> <<>>]]
         /\ mapView' = [mapView EXCEPT !.loading = TRUE, !.visible = FALSE]

\* refresh_all, lines 741-744: rows = db_fetch_last(200),
\* home_tab.update_overview(rows), map_tab.set_data(rows)
RefreshAllFetchLast ==
    /\ ~crashed /\ uiPc = "ra_fetch_last"
    /\ cyc' = [cyc EXCEPT !.rows = db_fetch_last(table, FetchLimit)]
    /\ home' = cyc'.rows
    /\ mapData' = cyc'.rows
    /\ MapRefresh
    /\ uiPc' = "ra_near"
    /\ UNCHANGED <<table, crashed, clicks, uiQueue, nearBatch, near, analysis,
                   lastLog>>
    /\ UNCHANGED fixedVars

\* refresh_all, lines 746-750: analysis_tab.set_data(rows), the quick
\* statistics, "Yenilendi: N kayit"; or, tableOk being FALSE, the exception
\* NearTab.refresh_data raised, in the except clause of lines 752-753
RefreshAllEnd(tableOk) ==
    IF tableOk
    THEN /\ analysis' = cyc.rows
         /\ lastLog' = [kind |-> "Yenilendi", n |-> Len(cyc.rows)]
         /\ cyc' = [cyc EXCEPT !.status = "done", !.store1 = table]
    ELSE /\ analysis' = analysis
         /\ lastLog' = [kind |-> "Hata", n |-> 0]
         /\ cyc' = [cyc EXCEPT !.status = "failed", !.store1 = table]

\* refresh_all, line 745: near_tab.refresh_data().  With rows in the store
\* the table is filled (lines 513-557) and refresh_all ends; with none,
\* fetch_live_earthquakes is called (line 516).
RefreshAllNear ==
    /\ ~crashed /\ uiPc = "ra_near"
    /\ LET rows == db_fetch_last(table, FetchLimit)
       IN  IF rows = <<>>
           THEN /\ uiPc' = "near_net"
                /\ UNCHANGED <<near, cyc, lastLog, analysis>>
           ELSE /\ near' = rows
                /\ RefreshAllEnd(NearRowsOk(rows))
                /\ uiPc' = "idle"
    /\ UNCHANGED <<table, crashed, clicks, uiQueue, nearBatch, home, mapData,
                   mapView, mapThread, thr>>
    /\ UNCHANGED fixedVars

\* NearTab.refresh_data, line 516: fetch_live_earthquakes returns feed
NearFetched(feed) ==
    /\ ~crashed /\ uiPc = "near_net"
    /\ nearBatch' = feed
    /\ cyc' = [cyc EXCEPT !.srcEmpty = @ /\ (feed = <<>>)]
    /\ uiPc' = "near_persist"
    /\ UNCHANGED <<table, crashed, clicks, uiQueue, home, mapData, near,
                   analysis, mapView, lastLog, mapThread, thr>>
    /\ UNCHANGED fixedVars

\* NearTab.refresh_data, line 517: db_upsert_earthquakes(eqs)
NearPersist ==
    /\ ~crashed /\ uiPc = "near_persist"
    /\ table' = UpsertAll(table, nearBatch, now)
    /\ uiPc' = "near_fetch_last"
    /\ UNCHANGED <<crashed, clicks, uiQueue, cyc, nearBatch, home, mapData, near,
                   analysis, mapView, lastLog, mapThread, thr>>
    /\ UNCHANGED fixedVars

\* NearTab.refresh_data, lines 518-557: rows = db_fetch_last(200) and the
\* table; then refresh_all ends
NearFetchLast ==
    /\ ~crashed /\ uiPc = "near_fetch_last"
    /\ near' = db_fetch_last(table, FetchLimit)
    /\ nearBatch' = <<>>
    /\ RefreshAllEnd(NearRowsOk(near'))
    /\ uiPc' = "idle"
    /\ UNCHANGED <<table, crashed, clicks, uiQueue, home, mapData, mapView,
                   mapThread, thr>>
    /\ UNCHANGED fixedVars

\* MapGeneratorWorker.run, lines 293-296, on thread t: the feed arrives
WorkerFetched(t, feed) ==
    /\ ~crashed /\ thr[t].st = "net"
    /\ thr' = [thr EXCEPT ![t] = [st |-> "persist", eqs |-> feed]]
    /\ cyc' = IF cyc.status = "running"
              THEN [cyc EXCEPT !.srcEmpty = @ /\ (feed = <<>>)] ELSE cyc
    /\ UNCHANGED <<table, crashed, clicks, uiPc, uiQueue, nearBatch, home,
                   mapData, near, analysis, mapView, lastLog, mapThread>>
    /\ UNCHANGED fixedVars

\* MapGeneratorWorker.run, lines 298-354, on thread t: db_upsert_earthquakes,
\* the map, and the finished or the error signal, queued to the UI thread
\* with the call of thread.quit connected to it
WorkerPersistRender(t) ==
    /\ ~crashed /\ thr[t].st = "persist"
    /\ table' = UpsertAll(table, thr[t].eqs, now)
    /\ thr' = [thr EXCEPT ![t].st = "loop"]
    /\ uiQueue' = Append(uiQueue,
           Event("map_signal", "worker", t,
                 MapRender(thr[t].eqs, ToFloat(settings.map_min_mag)).ok, FALSE))
    /\ UNCHANGED <<crashed, clicks, uiPc, cyc, nearBatch, home, mapData, near,
                   analysis, mapView, lastLog, mapThread>>
    /\ UNCHANGED fixedVars

\* MapTab._on_map_generated or _on_map_error, then QThread.quit
MapSignal ==
    /\ ~crashed /\ uiPc = "idle"
    /\ uiQueue # <<>> /\ Head(uiQueue).k = "map_signal"
    /\ uiQueue' = Tail(uiQueue)
    /\ LET t == Head(uiQueue).tid
       IN  /\ mapView' =
                IF Head(uiQueue).ok
                THEN [loading |-> FALSE, visible |-> TRUE, error |-> FALSE,
                      markers |->
                        MapRender(thr[t].eqs, ToFloat(settings.map_min_mag)).markers]
                ELSE [mapView EXCEPT !.error = TRUE]
           /\ thr' = [thr EXCEPT ![t].st = "quitting"]
    /\ UNCHANGED <<table, crashed, clicks, uiPc, cyc, nearBatch, home, mapData,
                   near, analysis, lastLog, mapThread>>
    /\ UNCHANGED fixedVars

\* Thread t leaves its event loop: isRunning() is False from here, and the
\* thread's finished signal is queued to the UI thread.
ThreadFinished(t) ==
    /\ ~crashed /\ thr[t].st = "quitting"
    /\ thr' = [thr EXCEPT ![t].st = "finished"]
    /\ uiQueue' = Append(uiQueue, Event("thread_finished", "worker", t, TRUE, FALSE))
    /\ UNCHANGED <<table, crashed, clicks, uiPc, cyc, nearBatch, home, mapData,
                   near, analysis, mapView, lastLog, mapThread>>
    /\ UNCHANGED fixedVars

\* MapTab._on_thread_finished: deleteLater on whatever self.thread is now
OnThreadFinished ==
    /\ ~crashed /\ uiPc = "idle"
    /\ uiQueue # <<>> /\ Head(uiQueue).k = "thread_finished"
    /\ IF mapThread # 0
       THEN /\ uiQueue' = Append(Tail(uiQueue),
                                 Event("deferred_delete", "ui", mapThread, TRUE, FALSE))
            /\ mapThread' = 0
       ELSE /\ uiQueue' = Tail(uiQueue)
            /\ mapThread' = mapThread
    /\ UNCHANGED <<table, crashed, clicks, uiPc, cyc, nearBatch, home, mapData,
                   near, analysis, mapView, lastLog, thr>>
    /\ UNCHANGED fixedVars

\* The event loop deletes the QThread deleteLater was called on; Qt aborts
\* the process when that thread is still running.
DeferredDelete ==
    /\ ~crashed /\ uiPc = "idle"
    /\ uiQueue # <<>> /\ Head(uiQueue).k = "deferred_delete"
    /\ uiQueue' = Tail(uiQueue)
    /\ LET t == Head(uiQueue).tid
       IN  IF Running(thr[t])
           THEN crashed' = TRUE /\ thr' = thr
           ELSE crashed' = crashed /\ thr' = [thr EXCEPT ![t] = NoThread]
    /\ UNCHANGED <<table, clicks, uiPc, cyc, nearBatch, home, mapData, near,
                   analysis, mapView, lastLog, mapThread>>
    /\ UNCHANGED fixedVars

Next ==
    \/ \E src \in {"user", "timer"} : Trigger(src)
    \/ RefreshAllStart
    \/ \E feed \in Feeds : RefreshAllFetched(feed)
    \/ RefreshAllPersist
    \/ RefreshAllFetchLast
    \/ RefreshAllNear
    \/ \E feed \in Feeds : NearFetched(feed)
    \/ NearPersist
    \/ NearFetchLast
    \/ \E t \in ThreadIds, feed \in Feeds : WorkerFetched(t, feed)
    \/ \E t \in ThreadIds : WorkerPersistRender(t)
    \/ MapSignal
    \/ \E t \in ThreadIds : ThreadFinished(t)
    \/ OnThreadFinished
    \/ DeferredDelete

\* The clock does not tick in Spec: every record of Feeds carries its
\* created_at, so no step reads it.
Spec == Init /\ [][Next]_vars

-----------------------------------------------------------------------------
(* StoreSpec: the store under arbitrary callers.                            *)

MaxBatch == 2
MaxLimit == 2
MaxTicks == 1

\* History: the record written last under each key, replaced whole.
RECURSIVE LastPerKey(_, _, _)
LastPerKey(lw, batch, clock) ==
    IF batch = <<>> THEN lw
    ELSE LET x == Extract(Head(batch), clock)
             k == x.row.earthquake_id
         IN  LastPerKey(IF x.ok
                        THEN [j \in DOMAIN lw \cup {k} |->
                                IF j = k THEN x.row ELSE lw[j]]
                        ELSE lw,
                        Tail(batch), clock)

StoreInit ==
    /\ table = <<>>
    /\ now = 3000
    /\ items = <<>>
    /\ call = [op |-> "db_init", limit |-> 0]
    /\ ret = <<>>
    /\ lastWritten = [k \in {} |-> None]
    /\ AppInit
    /\ ApiInit

\* The caller puts one more raw record on the list it will hand over; after
\* a call it starts a new list.
AddItem(e) ==
    /\ items' = IF call.op = "building" THEN Append(items, e) ELSE <<e>>
    /\ Len(items') <= MaxBatch
    /\ call' = [op |-> "building", limit |-> 0]
    /\ ret' = <<>>
    /\ UNCHANGED <<table, now, lastWritten>>
    /\ UNCHANGED appVars
    /\ UNCHANGED apiVars

\* db_upsert_earthquakes(items)
StoreUpsert ==
    /\ table' = UpsertAll(table, items, now)
    /\ lastWritten' = LastPerKey(lastWritten, items, now)
    /\ call' = [op |-> "db_upsert_earthquakes", limit |-> 0]
    /\ ret' = <<>>
    /\ UNCHANGED <<now, items>>
    /\ UNCHANGED appVars
    /\ UNCHANGED apiVars

\* db_fetch_last(limit); the caller keeps the rows it got and drops the list
\* it had built
StoreFetch(limit) ==
    /\ ret' = db_fetch_last(table, limit)
    /\ call' = [op |-> "db_fetch_last", limit |-> limit]
    /\ items' = <<>>
    /\ UNCHANGED <<table, now, lastWritten>>
    /\ UNCHANGED appVars
    /\ UNCHANGED apiVars

\* A second passes.
Tick ==
    /\ now < 3000 + MaxTicks
    /\ now' = now + 1
    /\ UNCHANGED <<table, items, call, ret, lastWritten>>
    /\ UNCHANGED appVars
    /\ UNCHANGED apiVars

StoreNext ==
    \/ \E e \in RawRecords : AddItem(e)
    \/ StoreUpsert
    \/ \E limit \in 0..MaxLimit : StoreFetch(limit)
    \/ Tick

StoreSpec == StoreInit /\ [][StoreNext]_vars

-----------------------------------------------------------------------------
(* StartSpec: MainWindow.__init__ for every settings.json.                  *)

StartInit ==
    /\ table = <<>>
    /\ now = 3000
    /\ items = <<>>
    /\ call = [op |-> "db_init", limit |-> 0]
    /\ ret = <<>>
    /\ lastWritten = [k \in {} |-> None]
    /\ ApiInit
    /\ UiInit
    /\ settingsFile \in SettingsFiles
    /\ settings = [k \in {} |-> None]
    /\ bootPc = "load"

\* MainWindow.__init__, line 686: self.settings = load_settings()
LoadSettings ==
    /\ bootPc = "load"
    /\ settings' = load_settings(settingsFile)
    /\ bootPc' = "tabs"
    /\ UNCHANGED <<settingsFile, storeVars, uiVars, apiVars>>

\* QDoubleSpinBox.setValue takes a number (TypeError otherwise)
CanSetValue(v) == v.t = "num"

\* MapTab.__init__, line 363: min_mag.setValue(load_settings().get(...));
\* an exception leaves MainWindow.__init__ and main
MapTabInit ==
    /\ bootPc = "tabs"
    /\ bootPc' = IF CanSetValue(load_settings(settingsFile).map_min_mag)
                 THEN "theme" ELSE "failed"
    /\ UNCHANGED <<settings, settingsFile, storeVars, uiVars, apiVars>>

\* apply_theme: the style sheet in use
ThemeInUse(s) == IF s.theme = Str("light") THEN "light" ELSE "dark"

\* MainWindow.__init__, line 710: apply_theme(settings.get("theme", "dark")),
\* which ends with save_settings(settings); written is FALSE when the file
\* cannot be written, which save_settings ignores
ApplyTheme(written) ==
    /\ bootPc = "theme"
    /\ settingsFile' = IF written THEN Dict(settings) ELSE settingsFile
    /\ bootPc' = "timer"
    /\ UNCHANGED <<settings, storeVars, uiVars, apiVars>>

\* the timer's interval in minutes: max(1, int(auto_refresh_minutes))
IntervalMinutes(s) ==
    IF ToInt(s.auto_refresh_minutes) > 1 THEN ToInt(s.auto_refresh_minutes) ELSE 1

\* MainWindow.__init__, line 711: the timer and its interval; int() of a
\* text that is no number, or of None, raises and leaves __init__ and main.
\* The timer is not started.
TimerInit ==
    /\ bootPc = "timer"
    /\ bootPc' = IF CanInt(settings.auto_refresh_minutes) THEN "up" ELSE "failed"
    /\ UNCHANGED <<settings, settingsFile, storeVars, uiVars, apiVars>>

StartNext ==
    \/ LoadSettings
    \/ MapTabInit
    \/ \E written \in BOOLEAN : ApplyTheme(written)
    \/ TimerInit

StartSpec == StartInit /\ [][StartNext]_vars

ApiNext == \E fn \in FetchFunctions, o \in HttpOutcomes : ApiCall(fn, o)

\* ApiSpec: the data source alone, under every outcome of the request.
ApiSpec == StoreInit /\ [][ApiNext]_vars

-----------------------------------------------------------------------------
(* Claims about the store, checked under StoreSpec.                         *)

Keys(t) == {t[i].earthquake_id : i \in 1..Len(t)}
UniqueKeys(t) ==
    \A i, j \in 1..Len(t) : t[i].earthquake_id = t[j].earthquake_id => i = j

\* C2: after any sequence of db_upsert_earthquakes calls the table holds
\* exactly one row per key written, and that row is, field for field, the
\* record whose INSERT ran last under that key: nothing of an earlier record
\* with the key survives.
C2_LastWriteWins ==
    /\ UniqueKeys(table)
    /\ Keys(table) = DOMAIN lastWritten
    /\ \A i \in 1..Len(table) : table[i] = lastWritten[table[i].earthquake_id]

\* C2 witness: one batch held a twice, first complete and then without its
\* optional fields, and the row of a is the second record.
C2_Witness ==
    /\ call.op = "db_upsert_earthquakes"
    /\ items = <<RawA, RawA2>>
    /\ \E i \in 1..Len(table) :
          /\ table[i].earthquake_id = Str("a")
          /\ table[i].title = Str("IZMIR (REVIZE)")
          /\ table[i].closestCity_name = None
          /\ table[i].lat = 0

IsPrefixOfTopRows(r, t, limit) ==
    /\ Len(r) = IF limit < Len(t) THEN limit ELSE Len(t)
    /\ \A i \in 1..Len(r) : \E j \in 1..Len(t) : r[i] = t[j]
    /\ \A i, j \in 1..Len(r) : i # j => r[i].earthquake_id # r[j].earthquake_id
    /\ \A j \in 1..Len(t) :
          (\A i \in 1..Len(r) : r[i] # t[j]) =>
              \A i \in 1..Len(r) : r[i].created_at >= t[j].created_at

RowId(t, row) == CHOOSE j \in 1..Len(t) : t[j] = row

\* C3 as stated: db_fetch_last(k) returns at most k rows, the k rows with the
\* largest created_at, sorted strictly descending by created_at.
C3_StrictlyDescending ==
    call.op = "db_fetch_last" =>
        /\ Len(ret) <= call.limit
        /\ IsPrefixOfTopRows(ret, table, call.limit)
        /\ \A i, j \in 1..Len(ret) : i < j => ret[i].created_at > ret[j].created_at

\* C3 amended: db_fetch_last(k) returns min(k, rows in the table) rows, no
\* row left out has a larger created_at than a row returned, the result is
\* sorted descending by created_at but not strictly (rows with equal
\* created_at are all kept), and rows with equal created_at come in the
\* order of their first insertion (rowid), in the result and at the cut.
C3_DescendingTiesByRowid ==
    call.op = "db_fetch_last" =>
        /\ Len(ret) <= call.limit
        /\ IsPrefixOfTopRows(ret, table, call.limit)
        /\ \A i, j \in 1..Len(ret) : i < j =>
              \/ ret[i].created_at > ret[j].created_at
              \/ /\ ret[i].created_at = ret[j].created_at
                 /\ RowId(table, ret[i]) < RowId(table, ret[j])
        /\ \A j \in 1..Len(table) :
              (\A i \in 1..Len(ret) : ret[i] # table[j]) =>
                  \A i \in 1..Len(ret) :
                      ret[i].created_at = table[j].created_at =>
                          RowId(table, ret[i]) < j

\* C3 witness: a fetch with a limit below the table's size that returned two
\* rows of equal created_at and cut a third.
C3_Witness ==
    /\ call.op = "db_fetch_last"
    /\ call.limit = 2
    /\ Len(table) = 3
    /\ Len(ret) = 2
    /\ ret[1].created_at = ret[2].created_at
    /\ ret[1].earthquake_id # ret[2].earthquake_id

\* The documented value of a numeric field: 0.0 when absent or no number.
DocFloat(v) == IF CanFloat(v) THEN ToFloat(v) ELSE 0
DocCoord(e, n) ==
    LET gj == Get(e, "geojson", None)
        co == IF gj.t = "dict" THEN Get(gj, "coordinates", None) ELSE None
    IN  IF co.t = "list" /\ Len(co.q) >= n THEN DocFloat(co.q[n]) ELSE 0

\* C6 as stated: normalization never fails. After db_upsert_earthquakes(items)
\* every item has its row in the table (the last item of a key has the row of
\* that key), with mag, depth, lon and lat the item's numbers, 0.0 where the
\* value is absent, no number, or the coordinate array is absent or short.
C6_NormalizeNeverFails ==
    call.op = "db_upsert_earthquakes" =>
        \A n \in 1..Len(items) :
            LET e == items[n]
                k == Or(Get(e, "earthquake_id", None), Str(""))
            IN  (\A m \in (n+1)..Len(items) :
                    Or(Get(items[m], "earthquake_id", None), Str("")) # k)
                => \E i \in 1..Len(table) :
                      /\ table[i].earthquake_id = k
                      /\ table[i].mag = DocFloat(Get(e, "mag", None))
                      /\ table[i].depth = DocFloat(Get(e, "depth", None))
                      /\ table[i].lon = DocCoord(e, 1)
                      /\ table[i].lat = DocCoord(e, 2)

\* C10 as stated: every stored row has a non-empty id and no two rows share
\* an id.
C10_IdNonEmptyUnique ==
    /\ UniqueKeys(table)
    /\ \A i \in 1..Len(table) : table[i].earthquake_id # Str("")

\* C13: a call of db_upsert_earthquakes(items) commits every record of items
\* that extracts and binds (the row of the last such record of each key is
\* in the table), whatever raises before or after it in the list; a record
\* that raises leaves no row and leaves the row stored under its key alone.
C13_BadRecordIsolated ==
    [][(call'.op = "db_upsert_earthquakes" /\ now' = now) =>
        LET Good(n) == Extract(items[n], now).ok
            Key(n)  == Extract(items[n], now).row.earthquake_id
        IN  /\ \A n \in 1..Len(items) :
                  (Good(n) /\ \A m \in (n+1)..Len(items) :
                                  Good(m) => Key(m) # Key(n))
                  => \E i \in 1..Len(table') :
                        table'[i] = Extract(items[n], now).row
            /\ \A i \in 1..Len(table) :
                  (\A n \in 1..Len(items) :
                      Good(n) => Key(n) # table[i].earthquake_id)
                  => \E j \in 1..Len(table') : table'[j] = table[i]
            /\ Keys(table') =
                  Keys(table) \cup {Key(n) : n \in {m \in 1..Len(items) : Good(m)}}
      ]_vars

\* C13 witness: a list whose first record cannot be written and whose second
\* is b was upserted into a table that held a; a and b are stored, c is not.
C13_Witness ==
    /\ call.op = "db_upsert_earthquakes"
    /\ items = <<RawObjTitle, RawB>>
    /\ Keys(table) = {Str("a"), Str("b")}

\* the keys the records of a list would be written under
BatchKeys(batch) ==
    {Or(Get(batch[n], "earthquake_id", None), Str("")) : n \in 1..Len(batch)}

\* the keys of every list that is on its way into db_upsert_earthquakes
KeysInFlight ==
    BatchKeys(items) \cup BatchKeys(cyc.live) \cup BatchKeys(nearBatch)
    \cup UNION {BatchKeys(thr[t].eqs) : t \in ThreadIds}

\* C18: no step removes a row: every row of the table is in the table after
\* the step, under its key and at its place in the order of insertion, and
\* it is the same row, field for field, unless its key is the key of a
\* record of an upserted list.
C18_StoreOnlyGrows ==
    [][/\ Len(table') >= Len(table)
       /\ \A i \in 1..Len(table) :
             /\ table'[i].earthquake_id = table[i].earthquake_id
             /\ table[i].earthquake_id \notin KeysInFlight => table'[i] = table[i]
      ]_vars

\* C18 witness: the revision of a alone was upserted into a table of three
\* rows; b, inserted first, is still the first row.
C18_Witness ==
    /\ call.op = "db_upsert_earthquakes"
    /\ items = <<RawA2>>
    /\ Len(table) = 3
    /\ table[1] = Extract(RawB, now).row
    /\ \E i \in 2..3 : table[i] = Extract(RawA2, now).row

\* C11 as stated: db_upsert_earthquakes(items) called again with the list of
\* the call before it, at the same or a later second, leaves the table as
\* that call left it.
C11_UpsertIdempotent ==
    [][(call.op = "db_upsert_earthquakes" /\ call'.op = "db_upsert_earthquakes")
          => table' = table]_vars

-----------------------------------------------------------------------------
(* Claims about the data source, checked under ApiSpec.                     *)

\* the response is a success: a 2xx status and a body that parses
HttpSuccess(o) ==
    o.kind = "response" /\ o.status >= 200 /\ o.status < 300 /\ o.body # Unparsable

\* C12 as stated: api_get never raises, and returns the list of the payload
\* when the response is a success whose JSON is a bare list or an object
\* with a list under "result", and the empty sequence in every other case.
C12_ApiGetTotal ==
    apiCalls > 0 =>
        /\ ~apiRet.raised
        /\ apiRet.value =
              IF HttpSuccess(http) /\ http.body.t = "list" THEN http.body.q
              ELSE IF /\ HttpSuccess(http) /\ http.body.t = "dict"
                      /\ "result" \in DOMAIN http.body.f
                      /\ http.body.f.result.t = "list"
                   THEN http.body.f.result.q
              ELSE <<>>

-----------------------------------------------------------------------------
(* Claims about startup, checked under StartSpec.                           *)

\* what settings.json says for key k, when it can be read
Readable(k) ==
    /\ settingsFile.t = "dict"
    /\ k \in DOMAIN settingsFile.f
    /\ IF k = "theme" THEN settingsFile.f[k] \in {Str("light"), Str("dark")}
       ELSE settingsFile.f[k].t = "num"

\* the documented value of key k: the file's when readable, else the default
Documented(k) == IF Readable(k) THEN settingsFile.f[k] ELSE DEFAULT_SETTINGS[k]

\* C14 as stated: MainWindow.__init__ never fails because of settings.json,
\* and once it has returned the theme, the threshold, the interval and the
\* minimum magnitude in use are the file's where it can be read and the
\* documented defaults where it cannot.
C14_StartupNeverFails ==
    /\ bootPc # "failed"
    /\ bootPc = "up" =>
          /\ Str(ThemeInUse(settings)) = Documented("theme")
          /\ Num(Threshold(settings)) = Documented("mag_threshold_for_notification")
          /\ Num(IntervalMinutes(settings)) = Documented("auto_refresh_minutes")
          /\ settings.map_min_mag = Documented("map_min_mag")

-----------------------------------------------------------------------------
(* Claims about the application, checked under Spec.                        *)

\* C1 as stated: a refresh trigger that arrives while refresh_all has not
\* returned is a no-op; no cycle is ever started for it, so none makes a
\* network call.
C1_TriggerWhileBusyIsNoOp ==
    ~(cyc.status = "running" /\ cyc.busy /\ uiPc = "ra_net")

\* C4 as stated: a cycle in which every call of the data source returned
\* nothing leaves the store as it was when the cycle began, gives the store's
\* rows to the views and ends with "Yenilendi: N kayit", N the number of rows
\* distributed.
C4_EmptyFetchLeavesStore ==
    (cyc.status \in {"done", "failed"} /\ cyc.srcEmpty) =>
        /\ cyc.store1 = cyc.store0
        /\ cyc.status = "done"
        /\ home = cyc.rows /\ mapData = cyc.rows /\ analysis = cyc.rows
        /\ lastLog = [kind |-> "Yenilendi", n |-> Len(cyc.rows)]

\* C5: once refresh_all is past line 739, the notification was raised if and
\* only if the live feed is not empty and the magnitude of its first element
\* is a number that is >= the threshold of the settings; neither the store
\* nor another element of the feed has a say.
C5_NotifyIffFirstLive ==
    (cyc.status # "none" /\ uiPc \notin {"ra_net", "ra_persist"}) =>
        (cyc.notified <=>
            /\ cyc.live # <<>>
            /\ MagOk(cyc.live[1])
            /\ MagOf(cyc.live[1]) >= Threshold(settings))

\* C5 witness: a completed cycle that raised the notification for a first
\* element at the threshold, while the newest row of the store is below it.
C5_Witness ==
    /\ cyc.status = "done"
    /\ cyc.notified
    /\ MagOf(cyc.live[1]) = Threshold(settings)
    /\ cyc.rows # <<>>
    /\ cyc.rows[1].mag < Threshold(settings)

\* The markers a map of the stored rows would show.
RowMarkers(rows) ==
    LET Shown(r) == r.mag >= ToFloat(settings.map_min_mag)
        rows_f == SelectSeq(rows, Shown)
    IN  [i \in 1..Len(rows_f) |->
            [lat |-> rows_f[i].lat, lon |-> rows_f[i].lon,
             mag |-> rows_f[i].mag, title |-> rows_f[i].title]]

\* C7 as stated: when a cycle has completed, the overview, the map, the table
\* and the chart hold the one list db_fetch_last(200) returned after the
\* cycle's upsert, and a map on display shows that list.
C7_ViewsShowSameList ==
    cyc.status = "done" =>
        /\ home = cyc.rows
        /\ mapData = cyc.rows
        /\ near = cyc.rows
        /\ analysis = cyc.rows
        /\ (mapView.visible /\ ~mapView.error) =>
               mapView.markers \in {<<>>, RowMarkers(mapData)}

\* C8 as stated, its safety part: once the window is up the timer runs, so
\* that timeouts call refresh_all.
C8_TimerRuns == WindowShown => timerActive

\* C9 as stated: the UI thread is never inside fetch_live_earthquakes.
C9_NoNetworkOnUiThread == uiPc \notin {"ra_net", "near_net"}

\* C15 as stated: a cycle whose live feed holds a record that cannot be
\* extracted, at whatever position, is not aborted: it ends with the other
\* records of the feed in the store, the views updated and "Yenilendi"
\* logged.
C15_MalformedNeverAborts ==
    (/\ cyc.status \in {"done", "failed"}
     /\ \E i \in 1..Len(cyc.live) : ~Extract(cyc.live[i], now).ok) =>
        /\ cyc.status = "done"
        /\ lastLog.kind = "Yenilendi"
        /\ \A i \in 1..Len(cyc.live) :
              Extract(cyc.live[i], now).ok =>
                  Extract(cyc.live[i], now).row.earthquake_id \in Keys(cyc.store1)

\* C16 as stated: when refresh_all ends in its except clause the store is
\* what it was when the cycle began, "Hata" is logged and the UI thread is
\* back in the event loop.
C16_FailedLeavesStore ==
    cyc.status = "failed" =>
        /\ cyc.store1 = cyc.store0
        /\ lastLog.kind = "Hata"
        /\ uiPc = "idle"

\* C17 as stated: the table is written by the UI thread only, in the upsert
\* of refresh_all or of NearTab.refresh_data; no step of a worker thread
\* changes it.
C17_OnlyCoordinatorWrites ==
    [][table' # table =>
          (uiPc \in {"ra_persist", "near_persist"} /\ uiPc' # uiPc)]_vars

\* C19 as stated: a map worker thread that is running is the thread
\* MapTab.thread refers to (so at most one runs and refresh starts no
\* second), and no running thread is deleted.
C19_OneMapTask ==
    /\ \A t \in ThreadIds : Running(thr[t]) => mapThread = t
    /\ ~crashed

=============================================================================
